---- MODULE Spec2Model ----
(***************************************************************************)
(* Molecule detection of ReacNetGenerator (reacnetgenerator/_detect.py).   *)
(*                                                                         *)
(* A LAMMPS bond file is a sequence of lines.  A line is a record          *)
(*   [tag |-> "Timestep" | "Particles" | "Comment" | "Atom" | "Pad",       *)
(*    s   |-> the numeric tokens of line.split()]                          *)
(* where "Pad" is the None that pads the last, incomplete block.  Bond     *)
(* order tokens are kept in tenths (14 is the field "1.4").  Atom indices  *)
(* are 0-based as in the code; Python lists are 1-based sequences here, so *)
(* list[i] of the code is list[i + 1] of the model.                        *)
(***************************************************************************)
EXTENDS Integers, Sequences, FiniteSets, TLC

(***************************************************************************)
(* Bounds of the model.                                                    *)
(***************************************************************************)
\* atoms of a timestep in the pipeline's input files
NAtoms == 3
\* timestep blocks of an input file
MaxBlocks == 4
\* largest step interval of a run
MaxInterval == 2
\* pool size of run_mp
NProc == 2
\* runs of detect() on the same input
MaxRuns == 2
\* atoms of a bond graph handed to _connectmolecule on its own
GraphAtoms == 3

(***************************************************************************)
(* Python values.                                                          *)
(***************************************************************************)
\* None and a present value, as sequences of length 0 and 1
None == <<>>
Some(x) == <<x>>

Min(a, b) == IF a < b THEN a ELSE b
Max(a, b) == IF a > b THEN a ELSE b

\* a slice bound as Python reads it: a negative bound counts from the end of s,
\* and a bound out of range is clipped, never an error
PyBound(s, a) == IF a < 0 THEN Max(a + Len(s), 0) ELSE Min(a, Len(s))

\* s[a:b]
PySlice(s, a, b) == SubSeq(s, PyBound(s, a) + 1, PyBound(s, b))

\* round(float(x)) for x >= 0 given in tenths: Python 3 rounds a half to even
PyRound(t) ==
  LET q == t \div 10
      r == t % 10
  IN  IF r < 5 THEN q
      ELSE IF r > 5 THEN q + 1
      ELSE IF q % 2 = 0 THEN q ELSE q + 1

RECURSIVE Zip(_, _)
\* zip(a, b): stops at the shorter
Zip(a, b) ==
  IF a = <<>> \/ b = <<>> THEN <<>>
  ELSE <<<<Head(a), Head(b)>>>> \o Zip(Tail(a), Tail(b))

(***************************************************************************)
(* utils.listtobytes: a list serialised to bytes, each number in a fixed   *)
(* width of two bytes after a two-byte element count.                      *)
(***************************************************************************)
WordBytes(n) == <<n % 256, (n \div 256) % 256>>

RECURSIVE FlattenWords(_)
FlattenWords(xs) ==
  IF xs = <<>> THEN <<>> ELSE WordBytes(Head(xs)) \o FlattenWords(Tail(xs))

RECURSIVE FlattenTuples(_)
FlattenTuples(ts) ==
  IF ts = <<>> THEN <<>> ELSE Head(ts) \o FlattenTuples(Tail(ts))

\* listtobytes of a list of integers
listtobytes(xs) == WordBytes(Len(xs)) \o FlattenWords(xs)
\* listtobytes of a list of (a, b, level) tuples
listtobytesT(ts) == WordBytes(Len(ts)) \o FlattenWords(FlattenTuples(ts))

(***************************************************************************)
(* dps.dps: connected components by an iterative depth-first search.       *)
(* bonds[s] and levels[s] are None or Some(list); None is an atom without  *)
(* neighbours.  The atoms of a component and its bonds are returned in the *)
(* order, and the bonds in the orientation, in which they are discovered.  *)
(***************************************************************************)
Neighbours(entry) == IF entry = None THEN <<>> ELSE entry[1]

\* xs[s] as Python indexes a list: a negative s counts from the end
PyItem(xs, s) == xs[(IF s < 0 THEN s + Len(xs) ELSE s) + 1]

RECURSIVE Expand(_, _, _, _, _)
\* the loop over zip(bonds[s], levels[s]) of one popped atom s
Expand(s, pairs, visited, st, bond) ==
  IF pairs = <<>> THEN [st |-> st, bond |-> bond]
  ELSE LET b == Head(pairs)[1]
           l == Head(pairs)[2]
       IN  IF b \notin visited
           THEN Expand(s, Tail(pairs), visited, Append(st, b),
                       Append(bond, <<s, b, l>>))
           ELSE Expand(s, Tail(pairs), visited, st, bond)

RECURSIVE Walk(_, _, _, _, _, _)
\* the while loop over the explicit stack st, for one component
Walk(bonds, levels, st, visited, mol, bond) ==
  IF st = <<>> THEN [visited |-> visited, mol |-> mol, bond |-> bond]
  ELSE LET s == st[Len(st)]
           rest == SubSeq(st, 1, Len(st) - 1)
       IN  IF s \in visited THEN Walk(bonds, levels, rest, visited, mol, bond)
           ELSE LET e == Expand(s, Zip(Neighbours(PyItem(bonds, s)), Neighbours(PyItem(levels, s))),
                                visited, rest, bond)
                IN  Walk(bonds, levels, e.st, visited \cup {s}, Append(mol, s), e.bond)

RECURSIVE Components(_, _, _, _, _)
\* the loop "for i in range(N)": a new component starts at every unvisited i
Components(bonds, levels, i, visited, out) ==
  IF i = Len(bonds) THEN out
  ELSE IF i \in visited THEN Components(bonds, levels, i + 1, visited, out)
  ELSE LET w == Walk(bonds, levels, <<i>>, visited, <<>>, <<>>)
       IN  Components(bonds, levels, i + 1, w.visited,
                      Append(out, <<w.mol, w.bond>>))

\* dps(bond, level): the list of (mol, bondlist) pairs, i.e. zip(*dps(...))
dps(bonds, levels) == Components(bonds, levels, 0, {}, <<>>)

(***************************************************************************)
(* _Detect._connectmolecule                                                *)
(***************************************************************************)
\* b' '.join((listtobytes(mol), listtobytes(bondlist)))
MoleculeKey(m) == listtobytes(m[1]) \o <<32>> \o listtobytesT(m[2])

\* a variant that loses the last molecule of the list
connectmoleculeDropLast(bond, level) ==
  LET ms == dps(bond, level)
  IN  [i \in 1..(Len(ms) - 1) |-> MoleculeKey(ms[i])]

connectmolecule(bond, level) ==
  LET ms == dps(bond, level)
  IN  [i \in 1..Len(ms) |-> MoleculeKey(ms[i])]

(***************************************************************************)
(* _DetectLAMMPSbond._readNfunc: the header scan.  The result carries      *)
(* raised = "none" and N, atomtype, steplinenum, or the exception raised.  *)
(***************************************************************************)
\* line 128, [int(s) for s in line.split() if s.isdigit()]: of the numbers on the
\* line those written with digits only, which leaves a number with a sign out
DigitTokens(s) == SelectSeq(s, LAMBDA x : x >= 0)

readNraise(e) == [raised |-> e, N |-> 0, atomtype |-> <<>>, steplinenum |-> 0]

RECURSIVE readNscan(_, _, _, _, _, _)
\* the loop "for index, line in enumerate(f)" from line `index` on; atomtype is
\* None until the first "# Number of particles" line binds N and atomtype
readNscan(f, index, iscompleted, stepaindex, n, atomtype) ==
  IF index = Len(f)
  THEN \* the else branch of the for loop: steplinenum = index + 1, index the last line
       IF index = 0 \/ atomtype = None THEN readNraise("UnboundLocalError")
       ELSE [raised |-> "none", N |-> n, atomtype |-> atomtype[1], steplinenum |-> index]
  ELSE LET line == f[index + 1] IN
       IF line.tag # "Atom"
       THEN IF line.tag = "Particles"
            THEN IF iscompleted
                 THEN [raised |-> "none", N |-> n, atomtype |-> atomtype[1],
                       steplinenum |-> index - stepaindex]
                 ELSE IF DigitTokens(line.s) = <<>>
                      THEN \* [int(s) for s in line.split() if s.isdigit()][0]
                           readNraise("IndexError")
                      ELSE readNscan(f, index + 1, TRUE, index, DigitTokens(line.s)[1],
                                     Some([i \in 1..DigitTokens(line.s)[1] |-> 0]))
            ELSE readNscan(f, index + 1, iscompleted, stepaindex, n, atomtype)
       ELSE \* line 132: the right-hand side int(s[1])-1 is evaluated first, then
            \* atomtype is loaded, then int(s[0])-1, then the item is stored
            IF Len(line.s) < 2 THEN readNraise("IndexError")
            ELSE IF atomtype = None THEN readNraise("UnboundLocalError")
            ELSE LET a == line.s[1] - 1
                     k == IF a < 0 THEN a + n ELSE a
                 IN  IF k < 0 \/ k >= n THEN readNraise("IndexError")
                     ELSE readNscan(f, index + 1, iscompleted, stepaindex, n,
                                    Some([atomtype[1] EXCEPT ![k + 1] = line.s[2] - 1]))

readNfunc(f) == readNscan(f, 0, FALSE, 0, 0, None)

(***************************************************************************)
(* _DetectLAMMPSbond._readstepfunc: one timestep block to its molecules.   *)
(***************************************************************************)
MinusOne(x) == x - 1
\* a variant that cuts the fraction off, as int(float(x)) does
BondLevelTruncated(x) == Max(1, x \div 10)
\* max(1, round(float(x)))
BondLevel(x) == Max(1, PyRound(x))
\* map(lambda x: int(x)-1, xs)
MapMinusOne(xs) == [i \in 1..Len(xs) |-> MinusOne(xs[i])]
\* map(lambda x: max(1, round(float(x))), xs)
MapBondLevel(xs) == [i \in 1..Len(xs) |-> BondLevel(xs[i])]
\* a variant that stops one neighbour early: s[3:2+s2]
BondTokensShort(s, s2) == PySlice(s, 3, 2 + s2)
\* s[3:3+s2], the neighbour ids of an atom line
BondTokens(s, s2) == PySlice(s, 3, 3 + s2)
\* s[4+s2:4+2*s2], the bond orders of an atom line
LevelTokens(s, s2) == PySlice(s, 4 + s2, 4 + 2 * s2)

\* float(x) of every token of an atom line, in tenths.  The tokens up to the
\* molecule id, the place 4 + nb, are the texts of integers and the tokens after
\* it the texts of decimals, given in tenths; a line whose count nb is negative
\* has no molecule id to tell them apart and is a line of integers
FloatTokens(s) ==
  [i \in 1..Len(s) |-> IF s[3] < 0 \/ i <= 4 + s[3] THEN 10 * s[i] ELSE s[i]]

RECURSIVE readstepscan(_, _, _, _, _)
\* the loop "for line in lines": the bond and level arrays, the timestep (None
\* until a "# Timestep" line binds it) and the exception raised, if any
readstepscan(lines, n, bond, level, timestep) ==
  IF lines = <<>>
  THEN [raised |-> "none", bond |-> bond, level |-> level, timestep |-> timestep]
  ELSE LET line == Head(lines) IN
       IF line.tag = "Pad"
       THEN readstepscan(Tail(lines), n, bond, level, timestep)
       ELSE IF line.tag # "Atom"
       THEN IF line.tag = "Timestep"
            THEN readstepscan(Tail(lines), n, bond, level, Some(line.s[Len(line.s)]))
            ELSE readstepscan(Tail(lines), n, bond, level, timestep)
       ELSE IF Len(line.s) < 3
            THEN [raised |-> "IndexError", bond |-> bond, level |-> level, timestep |-> timestep]
            ELSE LET s == line.s
                     a == s[1] - 1
                     s0 == IF a < 0 THEN a + n ELSE a
                     s2 == s[3]
                 IN  IF s0 < 0 \/ s0 >= n
                     THEN [raised |-> "IndexError", bond |-> bond, level |-> level,
                           timestep |-> timestep]
                     ELSE readstepscan(Tail(lines), n,
                            [bond EXCEPT ![s0 + 1] = Some(MapMinusOne(BondTokens(s, s2)))],
                            [level EXCEPT ![s0 + 1] =
                                      Some(MapBondLevel(LevelTokens(FloatTokens(s), s2)))],
                            timestep)

\* the result of a work item: (molecules, (step, timestep)) or the exception
readstepfunc(item, n) ==
  LET step == item[1]
      r == readstepscan(item[2], n, [i \in 1..n |-> None], [i \in 1..n |-> None], None)
  IN  IF r.raised # "none"
      THEN [raised |-> r.raised, molecules |-> <<>>, step |-> step, timestep |-> 0]
      ELSE IF r.timestep = None
      THEN [raised |-> "UnboundLocalError", molecules |-> <<>>, step |-> step, timestep |-> 0]
      ELSE [raised |-> "none", molecules |-> connectmolecule(r.bond, r.level),
            step |-> step, timestep |-> r.timestep[1]]

(***************************************************************************)
(* _DetectLAMMPSdump._getbondfromcrd.  The ASE atoms, the cKDTree query    *)
(* and Open Babel are outside the program: what they return is an input.   *)
(*   nearest: one Boolean per image atom of step_atoms.repeat(2)[n:], the  *)
(*            images of the n atoms cell after cell (line 247-250);        *)
(*   mol2:    the lines of the mol2 string (line 263), a line              *)
(*            [tag |-> "BondHeader" | "Line", s |-> its tokens], a bond    *)
(*            line having the tokens <<bond id, s1, s2, bond type>>, the   *)
(*            atoms numbered from 1, the ghost atoms after the real ones.  *)
(***************************************************************************)
\* step_atoms.repeat(2) is 2 * 2 * 2 cells, the first of them the atoms themselves
ImageCells == 7

RECURSIVE WhereTrue(_, _)
\* np.where(arr)[0] from place k on: the 0-based places of the TRUE entries
WhereTrue(arr, k) ==
  IF k >= Len(arr) THEN <<>>
  ELSE (IF arr[k + 1] THEN <<k>> ELSE <<>>) \o WhereTrue(arr, k + 1)

\* a variant that keeps the place of the image among the images
realnumberOfImage(near, atomnumber) == WhereTrue(near, 0)
\* line 252: realnumber = np.where(nearest)[0] % atomnumber
realnumber(near, atomnumber) ==
  LET w == WhereTrue(near, 0) IN [j \in 1..Len(w) |-> w[j] % atomnumber]

\* int(s[3]) of a bond type token
IntOf(tok) == CASE tok = "1" -> 1 [] tok = "2" -> 2 [] tok = "3" -> 3

\* lines 285-286: 12 if s[3] == 'ar' else (1 if s[3] == 'am' else int(s[3]))
crdlevel(tok) == IF tok = "ar" THEN 12 ELSE IF tok = "am" THEN 1 ELSE IntOf(tok)

\* lines 283-284: bond[s1].append(s2); bond[s2].append(s1)
AddBond(bond, s1, s2) ==
  LET b1 == [bond EXCEPT ![s1 + 1] = Append(@, s2)]
  IN  [b1 EXCEPT ![s2 + 1] = Append(@, s1)]

\* lines 287-288: bondlevel[s1].append(level); bondlevel[s2].append(level)
AddLevel(bondlevel, s1, s2, level) ==
  LET l1 == [bondlevel EXCEPT ![s1 + 1] = Append(@, level)]
  IN  [l1 EXCEPT ![s2 + 1] = Append(@, level)]

RECURSIVE crdscan(_, _, _, _, _, _)
\* lines 267-288, the loop over the lines of the mol2 string; real is realnumber,
\* None when pbc is off
crdscan(lines, linecontent, atomnumber, real, bond, bondlevel) ==
  IF lines = <<>> THEN [raised |-> "none", bond |-> bond, level |-> bondlevel]
  ELSE LET line == Head(lines) IN
       IF line.tag = "BondHeader"
       THEN crdscan(Tail(lines), 0, atomnumber, real, bond, bondlevel)
       ELSE IF linecontent # 0 \/ Len(line.s) <= 3
       THEN crdscan(Tail(lines), linecontent, atomnumber, real, bond, bondlevel)
       ELSE LET s1 == line.s[2] - 1
                s2 == line.s[3] - 1
            IN  IF s1 >= atomnumber /\ s2 >= atomnumber
                THEN crdscan(Tail(lines), linecontent, atomnumber, real, bond, bondlevel)
                ELSE IF (s1 >= atomnumber \/ s2 >= atomnumber) /\ real = None
                THEN [raised |-> "UnboundLocalError", bond |-> bond, level |-> bondlevel]
                ELSE IF \/ s1 >= atomnumber /\ s1 - atomnumber >= Len(real[1])
                        \/ s2 >= atomnumber /\ s2 - atomnumber >= Len(real[1])
                THEN [raised |-> "IndexError", bond |-> bond, level |-> bondlevel]
                ELSE LET r1 == IF s1 >= atomnumber THEN real[1][s1 - atomnumber + 1] ELSE s1
                         r2 == IF s2 >= atomnumber THEN real[1][s2 - atomnumber + 1] ELSE s2
                     IN  IF r1 >= atomnumber \/ r2 >= atomnumber
                         THEN [raised |-> "IndexError", bond |-> bond, level |-> bondlevel]
                         ELSE crdscan(Tail(lines), linecontent, atomnumber, real,
                                      AddBond(bond, r1, r2),
                                      AddLevel(bondlevel, r1, r2, crdlevel(line.s[4])))

\* lines 242-253: step_atoms after the call, the ghost atoms repeated_atoms[nearest]
\* appended to the object that was handed in; repeat(2) lays the copies out cell
\* after cell, so the image at place k is a copy of the atom k % atomnumber
WithGhosts(atoms, periodic, near) ==
  IF periodic
  THEN LET w == WhereTrue(near, 0)
       IN  atoms \o [j \in 1..Len(w) |-> atoms[(w[j] % Len(atoms)) + 1]]
  ELSE atoms

\* _getbondfromcrd(step_atoms, cell): (bond, bondlevel), or the exception raised
getbondfromcrd(atoms, periodic, near, mol2lines) ==
  LET atomnumber == Len(atoms)
      real == IF periodic THEN Some(realnumber(near, atomnumber)) ELSE None
  IN  crdscan(mol2lines, -1, atomnumber, real,
              [i \in 1..atomnumber |-> <<>>], [i \in 1..atomnumber |-> <<>>])

(***************************************************************************)
(* LAMMPS dump files.  A line is [tag, s]: an "ITEM: ..." line has the tag *)
(* "TIMESTEP", "NUMBER", "BOX", "ATOMS" or "OTHER" that LineType.          *)
(* linecontent gives it, and for "ATOMS" s holds the column names that     *)
(* follow "ITEM: ATOMS"; any other line has the tag "Data" and s its       *)
(* tokens.  A token is [lit |-> "int", v |-> n] for the text of the        *)
(* integer n, or [lit |-> "dec", v |-> t] for a decimal text, t in tenths. *)
(***************************************************************************)
IntTok(n) == [lit |-> "int", v |-> n]
DecTok(t) == [lit |-> "dec", v |-> t]

\* float(tok), in tenths
FloatOf(tok) == IF tok.lit = "int" THEN 10 * tok.v ELSE tok.v

\* keys.index(name) - 2 for keys = line.split() of an "ITEM: ATOMS" line; None
\* stands for the ValueError of a name that is not a column
ColumnIndex(names, name) ==
  IF \E i \in 1..Len(names) : names[i] = name
  THEN Some((CHOOSE i \in 1..Len(names) :
               names[i] = name /\ \A j \in 1..(i - 1) : names[j] # name) - 1)
  ELSE None

\* lines 188-193: self.id_idx, self.tidx, self.xidx, self.yidx, self.zidx
ColumnsOf(names) ==
  [id_idx |-> ColumnIndex(names, "id"), tidx |-> ColumnIndex(names, "type"),
   xidx |-> ColumnIndex(names, "x"), yidx |-> ColumnIndex(names, "y"),
   zidx |-> ColumnIndex(names, "z")]

ColumnsFound(c) ==
  c.id_idx # None /\ c.tidx # None /\ c.xidx # None /\ c.yidx # None /\ c.zidx # None

\* the five attributes before any of them is set
NoColumns == [id_idx |-> None, tidx |-> None, xidx |-> None, yidx |-> None, zidx |-> None]

\* lines 189-193 assign one after the other: the attributes after an "ITEM: ATOMS"
\* line, those of the names before the first missing one taken from the line and
\* the others left as they were; idx is None while no attribute is set
ColumnsAssigned(idx, names) ==
  LET new == ColumnsOf(names)
      old == IF idx = None THEN NoColumns ELSE idx[1]
      ok1 == new.id_idx # None
      ok2 == ok1 /\ new.tidx # None
      ok3 == ok2 /\ new.xidx # None
      ok4 == ok3 /\ new.yidx # None
      ok5 == ok4 /\ new.zidx # None
  IN  IF ~ok1 THEN idx
      ELSE Some([id_idx |-> new.id_idx,
                 tidx |-> IF ok2 THEN new.tidx ELSE old.tidx,
                 xidx |-> IF ok3 THEN new.xidx ELSE old.xidx,
                 yidx |-> IF ok4 THEN new.yidx ELSE old.yidx,
                 zidx |-> IF ok5 THEN new.zidx ELSE old.zidx])

(***************************************************************************)
(* _DetectLAMMPSdump._readNfunc: the header scan of a dump file.           *)
(***************************************************************************)
dumpNraise(e, idx) ==
  [raised |-> e, N |-> 0, atomtype |-> <<>>, steplinenum |-> 0, cols |-> idx]

\* line 206, atomtype[int(s[0])-1] = int(s[1])-1: the index k and the value v, or
\* the exception raised.  The right-hand side int(s[1])-1 is evaluated first,
\* then atomtype is loaded, then int(s[0])-1
HeaderAtom(s, idx, atomtype) ==
  IF Len(s) < 2 THEN [raised |-> "IndexError", k |-> 0, v |-> 0]
  ELSE IF s[2].lit # "int" THEN [raised |-> "ValueError", k |-> 0, v |-> 0]
  ELSE IF atomtype = None THEN [raised |-> "UnboundLocalError", k |-> 0, v |-> 0]
  ELSE IF s[1].lit # "int" THEN [raised |-> "ValueError", k |-> 0, v |-> 0]
  ELSE [raised |-> "none", k |-> s[1].v - 1, v |-> s[2].v - 1]

RECURSIVE dumpNscan(_, _, _, _, _, _, _, _)
\* the loop "for index, line in enumerate(f)" from line `index` on; linecontent,
\* atomtype and idx (the five column indices) are None until they are bound
dumpNscan(f, index, iscompleted, stepaindex, n, atomtype, linecontent, idx) ==
  IF index = Len(f)
  THEN IF index = 0 \/ atomtype = None THEN dumpNraise("UnboundLocalError", idx)
       ELSE [raised |-> "none", N |-> n, atomtype |-> atomtype[1], steplinenum |-> index,
             cols |-> idx]
  ELSE LET line == f[index + 1] IN
       IF line.tag # "Data"
       THEN IF line.tag = "ATOMS"
            THEN IF ~ColumnsFound(ColumnsOf(line.s))
                 THEN dumpNraise("ValueError", ColumnsAssigned(idx, line.s))
                 ELSE dumpNscan(f, index + 1, iscompleted, stepaindex, n, atomtype,
                                Some(line.tag), ColumnsAssigned(idx, line.s))
            ELSE dumpNscan(f, index + 1, iscompleted, stepaindex, n, atomtype,
                           Some(line.tag), idx)
       ELSE IF linecontent = None THEN dumpNraise("UnboundLocalError", idx)
       ELSE IF linecontent[1] = "NUMBER"
       THEN IF iscompleted
            THEN [raised |-> "none", N |-> n, atomtype |-> atomtype[1],
                  steplinenum |-> index - stepaindex, cols |-> idx]
            ELSE IF line.s = <<>> THEN dumpNraise("IndexError", idx)
            ELSE IF line.s[1].lit # "int" THEN dumpNraise("ValueError", idx)
            ELSE IF line.s[1].v < 0
            THEN \* line 203: np.zeros(N) of a negative N
                 dumpNraise("ValueError", idx)
            ELSE dumpNscan(f, index + 1, TRUE, index, line.s[1].v,
                           Some([i \in 1..line.s[1].v |-> 0]), linecontent, idx)
       ELSE IF linecontent[1] = "ATOMS"
       THEN LET a == HeaderAtom(line.s, idx, atomtype) IN
            IF a.raised # "none" THEN dumpNraise(a.raised, idx)
            ELSE LET k == IF a.k < 0 THEN a.k + n ELSE a.k
                 IN  IF k < 0 \/ k >= n THEN dumpNraise("IndexError", idx)
                     ELSE dumpNscan(f, index + 1, iscompleted, stepaindex, n,
                                    Some([atomtype[1] EXCEPT ![k + 1] = a.v]),
                                    linecontent, idx)
       ELSE dumpNscan(f, index + 1, iscompleted, stepaindex, n, atomtype, linecontent, idx)

dumpreadNfunc(f) == dumpNscan(f, 0, FALSE, 0, 0, None, None, None)

(***************************************************************************)
(* _DetectLAMMPSdump._readstepfunc: one timestep block to its molecules.   *)
(***************************************************************************)
\* self.atomname
atomname == <<"C", "H">>

\* lines 224-228: (int(s[self.id_idx]), Atom(self.atomname[int(s[self.tidx]) - 1],
\* (float(s[self.xidx]), float(s[self.yidx]), float(s[self.zidx])))), or the
\* exception raised.  The arguments are evaluated from left to right: the id,
\* the type and the name it selects, then x, y and z; an attribute that
\* _readNfunc has not set raises AttributeError
StepAtom(s, idx) ==
  LET fail(e) == [raised |-> e, atom |-> <<>>]
      unset(c) == c = None
      short(c) == Len(s) <= c[1]
  IN
  IF unset(idx.id_idx) THEN fail("AttributeError")
  ELSE IF short(idx.id_idx) THEN fail("IndexError")
  ELSE IF s[idx.id_idx[1] + 1].lit # "int" THEN fail("ValueError")
  ELSE IF unset(idx.tidx) THEN fail("AttributeError")
  ELSE IF short(idx.tidx) THEN fail("IndexError")
  ELSE IF s[idx.tidx[1] + 1].lit # "int" THEN fail("ValueError")
  ELSE LET ty == s[idx.tidx[1] + 1].v - 1
           k == IF ty < 0 THEN ty + Len(atomname) ELSE ty
       IN  IF k < 0 \/ k >= Len(atomname) THEN fail("IndexError")
           ELSE IF unset(idx.xidx) THEN fail("AttributeError")
           ELSE IF short(idx.xidx) THEN fail("IndexError")
           ELSE IF unset(idx.yidx) THEN fail("AttributeError")
           ELSE IF short(idx.yidx) THEN fail("IndexError")
           ELSE IF unset(idx.zidx) THEN fail("AttributeError")
           ELSE IF short(idx.zidx) THEN fail("IndexError")
           ELSE [raised |-> "none",
                 atom |-> << s[idx.id_idx[1] + 1].v,
                             [symbol |-> atomname[k + 1],
                              position |-> << FloatOf(s[idx.xidx[1] + 1]),
                                              FloatOf(s[idx.yidx[1] + 1]),
                                              FloatOf(s[idx.zidx[1] + 1]) >>] >>]

RECURSIVE dumpstepscan(_, _, _, _, _, _, _)
\* the loop "for line in lines" of lines 217-233
dumpstepscan(lines, step, idx, linecontent, atoms, boxsize, timestep) ==
  IF lines = <<>>
  THEN [raised |-> "none", atoms |-> atoms, boxsize |-> boxsize, timestep |-> timestep]
  ELSE LET line == Head(lines)
           fail(e) == [raised |-> e, atoms |-> atoms, boxsize |-> boxsize,
                       timestep |-> timestep]
       IN
       IF line.tag = "Pad"
       THEN dumpstepscan(Tail(lines), step, idx, linecontent, atoms, boxsize, timestep)
       ELSE IF line.tag # "Data"
       THEN dumpstepscan(Tail(lines), step, idx, Some(line.tag), atoms, boxsize, timestep)
       ELSE IF linecontent = None THEN fail("UnboundLocalError")
       ELSE IF linecontent[1] = "ATOMS"
       THEN IF idx = None THEN fail("AttributeError")
            ELSE LET a == StepAtom(line.s, idx[1]) IN
                 IF a.raised # "none" THEN fail(a.raised)
                 ELSE dumpstepscan(Tail(lines), step, idx, linecontent, Append(atoms, a.atom),
                                   boxsize, timestep)
       ELSE IF linecontent[1] = "TIMESTEP"
       THEN IF line.s = <<>> THEN fail("IndexError")
            ELSE IF line.s[1].lit # "int" THEN fail("ValueError")
            ELSE dumpstepscan(Tail(lines), step, idx, linecontent, atoms, boxsize,
                              Some(<<step, line.s[1].v>>))
       ELSE IF linecontent[1] = "BOX"
       THEN IF Len(line.s) < 2 THEN fail("IndexError")
            ELSE dumpstepscan(Tail(lines), step, idx, linecontent, atoms,
                              Append(boxsize, FloatOf(line.s[2]) - FloatOf(line.s[1])),
                              timestep)
       ELSE dumpstepscan(Tail(lines), step, idx, linecontent, atoms, boxsize, timestep)

\* the result of a work item: (molecules, timestep) with timestep = (step, the
\* simulation timestep), or the exception; atoms are the step_atoms of line 234,
\* sorted by id
dumpreadstepfunc(item, idx, periodic, near, mol2lines) ==
  LET r == dumpstepscan(item[2], item[1], idx, None, <<>>, <<>>, None)
      fail(e) == [raised |-> e, molecules |-> <<>>, step |-> item[1], timestep |-> 0,
                  atoms |-> <<>>]
  IN  IF r.raised # "none" THEN fail(r.raised)
      ELSE IF r.atoms = <<>> THEN fail("ValueError")
      ELSE LET sorted == SortSeq(r.atoms, LAMBDA x, y : x[1] < y[1])
               atoms == [i \in 1..Len(sorted) |-> sorted[i][2]]
               g == getbondfromcrd(atoms, periodic, near, mol2lines)
           IN  IF g.raised # "none" THEN fail(g.raised)
               ELSE IF r.timestep = None THEN fail("UnboundLocalError")
               ELSE [raised |-> "none",
                     molecules |-> connectmolecule([i \in 1..Len(atoms) |-> Some(g.bond[i])],
                                                   [i \in 1..Len(atoms) |-> Some(g.level[i])]),
                     step |-> r.timestep[1][1], timestep |-> r.timestep[1][2],
                     atoms |-> atoms]

(***************************************************************************)
(* The input files of the model: LAMMPS bond files of NAtoms atoms, one    *)
(* block per timestep.  A block is                                         *)
(*   # Timestep t / # / # Number of particles N / # id type nb ... /       *)
(*   one line "id type nb id_1..id_nb mol bo_1..bo_nb abo nlp q" per atom  *)
(*   / #                                                                   *)
(* and its kind says which bonds it holds: "free" none, "head" the bond    *)
(* between atoms 1 and 2; a "notime" block is a "free" block whose         *)
(* "# Timestep" line is missing.                                           *)
(***************************************************************************)
Kinds == {"free", "head", "notime"}

Comment == [tag |-> "Comment", s |-> <<>>]

TypeOf(id) == 2 - (id % 2)

\* the (neighbour id, bond order in tenths) pairs of atom id in a block
NbrsOf(kind, id) ==
  IF kind = "head" /\ id = 1 THEN <<<<2, 14>>>>
  ELSE IF kind = "head" /\ id = 2 THEN <<<<1, 14>>>>
  ELSE <<>>

AtomLine(id, nbrs) ==
  [tag |-> "Atom",
   s |-> <<id, TypeOf(id), Len(nbrs)>> \o [i \in 1..Len(nbrs) |-> nbrs[i][1]] \o <<0>>
         \o [i \in 1..Len(nbrs) |-> nbrs[i][2]] \o <<0, 0, 0>>]

\* block b (0-based) of a file; hascount is FALSE when the header line lacks N
BlockLines(b, kind, hascount) ==
  << IF kind = "notime" THEN Comment ELSE [tag |-> "Timestep", s |-> <<5 * b>>],
     Comment,
     [tag |-> "Particles", s |-> IF hascount THEN <<NAtoms>> ELSE <<>>],
     Comment >>
  \o [id \in 1..NAtoms |-> AtomLine(id, NbrsOf(kind, id))]
  \o <<Comment>>

RECURSIVE FileLines(_, _, _)
\* the blocks b.. of a file with the given kinds; only the first header can lack N
FileLines(kinds, b, hascount) ==
  IF b = Len(kinds) THEN <<>>
  ELSE BlockLines(b, kinds[b + 1], hascount \/ b > 0) \o FileLines(kinds, b + 1, hascount)

Files ==
  { FileLines(kinds, 0, hascount) :
      kinds \in UNION { [1..n -> Kinds] : n \in 1..MaxBlocks }, hascount \in BOOLEAN }

(***************************************************************************)
(* utils.run_mp: the work items of a call.  With nlines the lines are      *)
(* grouped into blocks of nlines (the last one padded with None), with     *)
(* interval only every interval-th block is kept, and with return_num the  *)
(* kept blocks are numbered from 0.                                        *)
(***************************************************************************)
NumBlocks(f, nlines) == (Len(f) + nlines - 1) \div nlines

BlockAt(f, nlines, b) ==
  [i \in 1..nlines |->
     IF b * nlines + i <= Len(f) THEN f[b * nlines + i] ELSE [tag |-> "Pad", s |-> <<>>]]

NumItems(f, nlines, interval) == (NumBlocks(f, nlines) + interval - 1) \div interval

\* the block that work item `step` carries
BlockOfItem(step, interval) == step * interval

(***************************************************************************)
(* The state of a run of _Detect.detect() on a bond file.                  *)
(***************************************************************************)
VARIABLES
  file,         \* the lines of self.inputfilename
  stepinterval, \* self.stepinterval
  pc,           \* "start", "read" (first run_mp), "save" (second run_mp), "done", "failed"
  N,            \* self.N
  atomtype,     \* self.atomtype
  steplinenum,  \* _steplinenum
  task,         \* run_mp: the number of work items taken by a worker so far
  running,      \* run_mp: the work items a worker is processing
  outq,         \* run_mp: the finished results that have not been yielded yet
  yielded,      \* run_mp: the number of results yielded to the caller
  d,            \* the dict d, as the sequence of its (key, list) pairs in insertion order
  timestep,     \* the dict timestep, as the set of its (step, thetimestep) pairs
  values_c,     \* values_c, as far as it has been collected
  temp1it,      \* self.temp1it
  step,         \* self.step
  written,      \* None, or Some(what _writemoleculetempfile wrote to the temp file)
  raised,       \* the exception that ended the run, "none" without one
  parsed,       \* the blocks of the file _readstepfunc has been called on
  run,          \* the number of the run of detect() on this input
  prev,         \* None, or Some(the timeline of the previous run)
  sitem,        \* a work item of its own: (step, lines)
  sres,         \* None, or Some(what _readstepfunc returned for sitem)
  cols,         \* dump files: self.id_idx, self.tidx, self.xidx, self.yidx, self.zidx
  pbc,          \* self.pbc
  nearest,      \* the array `nearest` of line 250: which image atoms are ghost atoms
  mol2,         \* the bond lines of the mol2 string the bonding oracle returns
  step_atoms,   \* the atoms handed to _getbondfromcrd on its own
  graph         \* None, or Some(what _getbondfromcrd returned)

vars == <<file, stepinterval, pc, N, atomtype, steplinenum, task, running, outq,
          yielded, d, timestep, values_c, temp1it, step, written, raised, parsed,
          run, prev, sitem, sres, cols, pbc, nearest, mol2, step_atoms, graph>>

\* the state in which _readinputfile starts: d = defaultdict(list), timestep = {}
StartOfRun ==
  /\ pc = "start"
  /\ N = 0 /\ atomtype = <<>> /\ steplinenum = 0
  /\ task = 0 /\ running = {} /\ outq = <<>> /\ yielded = 0
  /\ d = <<>> /\ timestep = {} /\ values_c = <<>>
  /\ temp1it = 0 /\ step = 0 /\ written = None /\ raised = "none" /\ parsed = {}

NoItem ==
  /\ sitem = <<0, <<>>>>
  /\ sres = None

\* no dump file and no call of _getbondfromcrd
NoCrd ==
  /\ cols = None /\ pbc = FALSE /\ nearest = <<>> /\ mol2 = <<>>
  /\ step_atoms = <<>> /\ graph = None

Init ==
  /\ file \in Files
  /\ stepinterval \in 1..MaxInterval
  /\ StartOfRun
  /\ run = 1 /\ prev = None
  /\ NoItem
  /\ NoCrd

(***************************************************************************)
(* _Detect._readinputfile, lines 78-79: the header scan.                   *)
(***************************************************************************)
\* a variant that swallows the exception of the header scan and goes on with
\* the whole file as one block
ReadNUnchecked ==
  /\ pc = "start"
  /\ LET r == readNfunc(file) IN
       /\ pc' = "read"
       /\ N' = r.N
       /\ atomtype' = r.atomtype
       /\ steplinenum' = IF r.raised # "none" THEN Len(file) ELSE r.steplinenum
       /\ UNCHANGED raised
  /\ UNCHANGED <<file, stepinterval, task, running, outq, yielded, d, timestep, values_c,
                 temp1it, step, written, parsed, run, prev, sitem, sres, cols, pbc, nearest, mol2, step_atoms, graph>>

ReadN ==
  /\ pc = "start"
  /\ LET r == readNfunc(file) IN
       IF r.raised # "none"
       THEN /\ pc' = "failed"
            /\ raised' = r.raised
            /\ UNCHANGED <<N, atomtype, steplinenum>>
       ELSE /\ pc' = "read"
            /\ N' = r.N
            /\ atomtype' = r.atomtype
            /\ steplinenum' = r.steplinenum
            /\ UNCHANGED raised
  /\ UNCHANGED <<file, stepinterval, task, running, outq, yielded, d, timestep, values_c,
                 temp1it, step, written, parsed, run, prev, sitem, sres, cols, pbc, nearest, mol2, step_atoms, graph>>

(***************************************************************************)
(* utils.run_mp: a pool of NProc workers.  A free worker takes the next    *)
(* work item; a worker that finishes puts its result, or the exception it  *)
(* raised, on the result queue.                                            *)
(***************************************************************************)
\* a variant that does not pass the interval on
ReadBlockEvery(i) == BlockOfItem(i, 1)
\* line 81, nlines=_steplinenum, interval=self.stepinterval: the block of the
\* file that work item i carries, and the work item
ReadBlock(i) == BlockOfItem(i, stepinterval)
ReadItem(i) == <<i, BlockAt(file, steplinenum, ReadBlock(i))>>

\* run_mp yields the results as the workers finish unless unordered=False is passed
RunMpUnordered == TRUE
\* line 81 passes no `unordered` argument
ReadUnordered == RunMpUnordered
\* a variant of line 88 that leaves unordered=False out
SaveAsFinished == RunMpUnordered
\* line 88 passes unordered=False
SaveUnordered == FALSE

\* a finished result is put on the result queue: at its end when the results are
\* yielded as they finish, at the place of its index when they are yielded in order
PutResult(q, r, unordered) ==
  IF unordered THEN Append(q, r)
  ELSE LET k == Cardinality({j \in 1..Len(q) : q[j].index < r.index})
       IN  SubSeq(q, 1, k) \o <<r>> \o SubSeq(q, k + 1, Len(q))

\* the number of work items of the run_mp call in progress
Items ==
  IF pc = "read" THEN NumItems(file, steplinenum, stepinterval)
  ELSE IF pc = "save" THEN Len(d)
  ELSE 0

WorkerTake ==
  /\ pc \in {"read", "save"}
  /\ task < Items
  /\ Cardinality(running) < NProc
  /\ running' = running \cup {task}
  /\ task' = task + 1
  /\ UNCHANGED <<file, stepinterval, pc, N, atomtype, steplinenum, outq, yielded, d,
                 timestep, values_c, temp1it, step, written, raised, parsed, run, prev,
                 sitem, sres, cols, pbc, nearest, mol2, step_atoms, graph>>

\* _compressvalue(x): listtobytes(np.array(x))
compressvalue(x) == listtobytes(x)

\* d[molecule].append(step) on the defaultdict(list) d
DictAppend(dd, key, s) ==
  IF \E i \in 1..Len(dd) : dd[i][1] = key
  THEN LET i == CHOOSE i \in 1..Len(dd) : dd[i][1] = key
       IN  [dd EXCEPT ![i] = <<key, Append(dd[i][2], s)>>]
  ELSE Append(dd, <<key, <<s>>>>)

RECURSIVE MergeMolecules(_, _, _)
\* for molecule in molecules: d[molecule].append(step)
MergeMolecules(dd, molecules, s) ==
  IF molecules = <<>> THEN dd
  ELSE MergeMolecules(DictAppend(dd, Head(molecules), s), Tail(molecules), s)

\* a variant in which the worker itself folds its molecules into d
ReadStepDoneShared(i) ==
  /\ pc = "read"
  /\ i \in running
  /\ running' = running \ {i}
  /\ LET res == readstepfunc(ReadItem(i), N) IN
       /\ outq' = PutResult(outq, [index |-> i, res |-> res], ReadUnordered)
       /\ d' = MergeMolecules(d, res.molecules, i)
  /\ parsed' = parsed \cup {ReadBlock(i)}
  /\ UNCHANGED <<file, stepinterval, pc, N, atomtype, steplinenum, task, yielded,
                 timestep, values_c, temp1it, step, written, raised, run, prev, sitem, sres, cols, pbc, nearest, mol2, step_atoms, graph>>

\* a worker finishes _readstepfunc on work item i
ReadStepDone(i) ==
  /\ pc = "read"
  /\ i \in running
  /\ running' = running \ {i}
  /\ outq' = PutResult(outq, [index |-> i, res |-> readstepfunc(ReadItem(i), N)],
                       ReadUnordered)
  /\ parsed' = parsed \cup {ReadBlock(i)}
  /\ UNCHANGED <<file, stepinterval, pc, N, atomtype, steplinenum, task, yielded, d,
                 timestep, values_c, temp1it, step, written, raised, run, prev, sitem, sres, cols, pbc, nearest, mol2, step_atoms, graph>>

\* a worker finishes _compressvalue on the i-th value of d
CompressDone(i) ==
  /\ pc = "save"
  /\ i \in running
  /\ running' = running \ {i}
  /\ outq' = PutResult(outq, [index |-> i, res |-> compressvalue(d[i + 1][2])],
                       SaveUnordered)
  /\ UNCHANGED <<file, stepinterval, pc, N, atomtype, steplinenum, task, yielded, d,
                 timestep, values_c, temp1it, step, written, raised, parsed, run, prev,
                 sitem, sres, cols, pbc, nearest, mol2, step_atoms, graph>>

\* the place in the result queue of the result run_mp yields next, 0 if it has
\* to wait: any finished result when unordered, else the result of item `yielded`
NextResult(unordered) ==
  IF unordered
  THEN IF outq = <<>> THEN 0 ELSE 1
  ELSE IF \E k \in 1..Len(outq) : outq[k].index = yielded
       THEN CHOOSE k \in 1..Len(outq) : outq[k].index = yielded
       ELSE 0

RemoveAt(q, k) == SubSeq(q, 1, k - 1) \o SubSeq(q, k + 1, Len(q))

(***************************************************************************)
(* _Detect._readinputfile, lines 81-86: the first run_mp call and the loop *)
(* that folds its results into d and timestep.                             *)
(***************************************************************************)
\* timestep[step] = thetimestep
DictSet(tt, s, ts) == {p \in tt : p[1] # s} \cup {<<s, ts>>}

\* a variant that skips a result that is an exception and goes on
MergeResultSkip ==
  /\ pc = "read"
  /\ NextResult(ReadUnordered) # 0
  /\ LET k == NextResult(ReadUnordered)
         r == outq[k].res
     IN  /\ d' = IF r.raised # "none" THEN d ELSE MergeMolecules(d, r.molecules, r.step)
         /\ timestep' = IF r.raised # "none" THEN timestep
                         ELSE DictSet(timestep, r.step, r.timestep)
         /\ outq' = RemoveAt(outq, k)
         /\ yielded' = yielded + 1
         /\ UNCHANGED <<pc, raised, running>>
  /\ UNCHANGED <<file, stepinterval, N, atomtype, steplinenum, task, values_c, temp1it,
                 step, written, parsed, run, prev, sitem, sres, cols, pbc, nearest, mol2, step_atoms, graph>>

\* a variant that folds a result in and leaves it where the next iteration
\* finds it again
MergeResultAgain ==
  /\ pc = "read"
  /\ NextResult(ReadUnordered) # 0
  /\ LET k == NextResult(ReadUnordered)
         r == outq[k].res
     IN  IF r.raised # "none"
         THEN /\ pc' = "failed"
              /\ raised' = r.raised
              /\ running' = {}
              /\ outq' = <<>>
              /\ UNCHANGED <<d, timestep, yielded>>
         ELSE /\ d' = MergeMolecules(d, r.molecules, r.step)
              /\ timestep' = DictSet(timestep, r.step, r.timestep)
              /\ yielded' = yielded + 1
              /\ UNCHANGED <<pc, raised, running, outq>>
  /\ UNCHANGED <<file, stepinterval, N, atomtype, steplinenum, task, values_c, temp1it,
                 step, written, parsed, run, prev, sitem, sres, cols, pbc, nearest, mol2,
                 step_atoms, graph>>

\* one iteration of "for molecules, (step, thetimestep) in results"; a result that
\* is an exception is raised here, and run_mp terminates the pool
MergeResult ==
  /\ pc = "read"
  /\ NextResult(ReadUnordered) # 0
  /\ LET k == NextResult(ReadUnordered)
         r == outq[k].res
     IN  IF r.raised # "none"
         THEN /\ pc' = "failed"
              /\ raised' = r.raised
              /\ running' = {}
              /\ outq' = <<>>
              /\ UNCHANGED <<d, timestep, yielded>>
         ELSE /\ d' = MergeMolecules(d, r.molecules, r.step)
              /\ timestep' = DictSet(timestep, r.step, r.timestep)
              /\ outq' = RemoveAt(outq, k)
              /\ yielded' = yielded + 1
              /\ UNCHANGED <<pc, raised, running>>
  /\ UNCHANGED <<file, stepinterval, N, atomtype, steplinenum, task, values_c, temp1it,
                 step, written, parsed, run, prev, sitem, sres, cols, pbc, nearest, mol2, step_atoms, graph>>

(***************************************************************************)
(* _Detect._readinputfile, lines 87-92.                                    *)
(***************************************************************************)
\* a variant that counts the results of the loop instead of the keys of d
EndReadCountsSteps ==
  /\ pc = "read"
  /\ yielded = Items
  /\ temp1it' = yielded
  /\ pc' = "save"
  /\ task' = 0 /\ running' = {} /\ outq' = <<>> /\ yielded' = 0
  /\ UNCHANGED <<file, stepinterval, N, atomtype, steplinenum, d, timestep, values_c,
                 step, written, raised, parsed, run, prev, sitem, sres, cols, pbc, nearest,
                 mol2, step_atoms, graph>>

\* the loop is over: self.temp1it = len(d), and the second run_mp call starts
EndRead ==
  /\ pc = "read"
  /\ yielded = Items
  /\ temp1it' = Len(d)
  /\ pc' = "save"
  /\ task' = 0 /\ running' = {} /\ outq' = <<>> /\ yielded' = 0
  /\ UNCHANGED <<file, stepinterval, N, atomtype, steplinenum, d, timestep, values_c,
                 step, written, raised, parsed, run, prev, sitem, sres, cols, pbc, nearest, mol2, step_atoms, graph>>

\* list(run_mp(...)) takes the next compressed value
CollectValue ==
  /\ pc = "save"
  /\ NextResult(SaveUnordered) # 0
  /\ LET k == NextResult(SaveUnordered) IN
       /\ values_c' = Append(values_c, outq[k].res)
       /\ outq' = RemoveAt(outq, k)
  /\ yielded' = yielded + 1
  /\ UNCHANGED <<file, stepinterval, pc, N, atomtype, steplinenum, task, running, d,
                 timestep, temp1it, step, written, raised, parsed, run, prev, sitem, sres, cols, pbc, nearest, mol2, step_atoms, graph>>

\* _writemoleculetempfile((d.keys(), values_c)): f.extend(mol) for mol in zip(*d)
writemoleculetempfile(keys, values) == Zip(keys, values)

\* lines 90-92: the temp file is written, self.timestep and self.step are set
Write ==
  /\ pc = "save"
  /\ yielded = Items
  /\ written' = Some(writemoleculetempfile([i \in 1..Len(d) |-> d[i][1]], values_c))
  /\ step' = Cardinality(timestep)
  /\ pc' = "done"
  /\ UNCHANGED <<file, stepinterval, N, atomtype, steplinenum, task, running, outq,
                 yielded, d, timestep, values_c, temp1it, raised, parsed, run, prev,
                 sitem, sres, cols, pbc, nearest, mol2, step_atoms, graph>>

(***************************************************************************)
(* detect() is run again on the same input file and configuration.         *)
(***************************************************************************)
\* the timeline of a finished run: the occurrence list of every key, and the
\* step-to-timestep map
Timeline == [d |-> {d[i] : i \in 1..Len(d)}, timestep |-> timestep]

\* detect() is called again on the same object: lines 76-77 start with an empty
\* d and timestep, the locals of the call are new, and the attributes self.N,
\* self.atomtype, self.temp1it, self.step and the temp file of the run before
\* stay as they are until lines 79, 87 and 90-92 set them again
Rerun ==
  /\ pc = "done"
  /\ run < MaxRuns
  /\ prev' = Some(Timeline)
  /\ run' = run + 1
  /\ pc' = "start"
  /\ steplinenum' = 0
  /\ task' = 0 /\ running' = {} /\ outq' = <<>> /\ yielded' = 0
  /\ d' = <<>> /\ timestep' = {} /\ values_c' = <<>>
  /\ raised' = "none" /\ parsed' = {}
  /\ UNCHANGED <<file, stepinterval, N, atomtype, temp1it, step, written, sitem, sres,
                 cols, pbc, nearest, mol2, step_atoms, graph>>

Next ==
  \/ ReadN
  \/ WorkerTake
  \/ \E i \in running : ReadStepDone(i)
  \/ \E i \in running : CompressDone(i)
  \/ MergeResult
  \/ EndRead
  \/ CollectValue
  \/ Write

Spec == Init /\ [][Next]_vars

\* runs of detect(), one after the other, on the same input
NextRerun ==
  \/ Next
  \/ Rerun

SpecRerun == Init /\ [][NextRerun]_vars

(***************************************************************************)
(* _readstepfunc on a work item of its own: a block of GraphAtoms atoms    *)
(* in which every atom either has no line or lists any of the other atoms  *)
(* as its neighbours, in any order.  A bond has the same bond order field  *)
(* on the lines of its two atoms, except on the line of the atom `skew`    *)
(* (0: no atom), whose fields are higher by one.                           *)
(***************************************************************************)
\* the neighbour lists an atom line of atom a can carry
NbrLists(a) ==
  { nb \in UNION { [1..k -> (1..GraphAtoms) \ {a}] : k \in 0..(GraphAtoms - 1) } :
      \A i, j \in DOMAIN nb : i # j => nb[i] # nb[j] }

\* the bond order field of the bond between a and b, in tenths
EdgeBo(a, b) == IF (a + b) % 2 = 1 THEN 14 ELSE 16
\* the bond order field for neighbour b on the line of atom a
LineBo(a, b, skew) == IF a = skew THEN EdgeBo(a, b) + 10 ELSE EdgeBo(a, b)

\* for every atom None (no line) or Some(its neighbour list)
GraphDescs ==
  [1..GraphAtoms -> {None} \cup UNION { {Some(nb) : nb \in NbrLists(a)} : a \in 1..GraphAtoms }]

RECURSIVE GraphAtomLines(_, _, _)
GraphAtomLines(desc, a, skew) ==
  IF a > GraphAtoms THEN <<>>
  ELSE (IF desc[a] = None THEN <<>>
        ELSE <<AtomLine(a, [i \in 1..Len(desc[a][1]) |->
                               <<desc[a][1][i], LineBo(a, desc[a][1][i], skew)>>])>>)
       \o GraphAtomLines(desc, a + 1, skew)

GraphLines(desc, skew) ==
  << [tag |-> "Timestep", s |-> <<7>>], Comment,
     [tag |-> "Particles", s |-> <<GraphAtoms>>], Comment >>
  \o GraphAtomLines(desc, 1, skew) \o <<Comment>>

WellFormedDesc(desc) ==
  \A a \in 1..GraphAtoms : desc[a] # None => desc[a][1] \in NbrLists(a)

InitStep ==
  /\ sitem \in { <<0, GraphLines(desc, skew)>> :
                    desc \in {g \in GraphDescs : WellFormedDesc(g)}, skew \in 0..GraphAtoms }
  /\ sres = None
  /\ file = <<>> /\ stepinterval = 1
  /\ pc = "idle"
  /\ N = GraphAtoms /\ atomtype = <<>> /\ steplinenum = 0
  /\ task = 0 /\ running = {} /\ outq = <<>> /\ yielded = 0
  /\ d = <<>> /\ timestep = {} /\ values_c = <<>>
  /\ temp1it = 0 /\ step = 0 /\ written = None /\ raised = "none" /\ parsed = {}
  /\ run = 1 /\ prev = None
  /\ NoCrd

\* a worker calls _readstepfunc(sitem)
StepRead ==
  /\ sres = None
  /\ sres' = Some(readstepfunc(sitem, N))
  /\ UNCHANGED <<sitem, file, stepinterval, pc, N, atomtype, steplinenum, task, running,
                 outq, yielded, d, timestep, values_c, temp1it, step, written, raised,
                 parsed, run, prev, cols, pbc, nearest, mol2, step_atoms, graph>>

NextStep == StepRead

SpecStep == InitStep /\ [][NextStep]_vars

(***************************************************************************)
(* _readstepfunc on a block whose body need not hold the N atoms of the    *)
(* header: any BodyAtoms + 1 or fewer atom lines, with ids from 0 to       *)
(* BodyAtoms + 1, none with a bond.                                        *)
(***************************************************************************)
\* the atom count in the header of such a block
BodyAtoms == 2

\* the ids of the atom lines of a body, in file order
Bodies == UNION { [1..k -> 0..(BodyAtoms + 1)] : k \in 0..(BodyAtoms + 1) }

BodyLines(ids) ==
  << [tag |-> "Timestep", s |-> <<7>>], Comment,
     [tag |-> "Particles", s |-> <<BodyAtoms>>], Comment >>
  \o [i \in 1..Len(ids) |-> AtomLine(ids[i], <<>>)] \o <<Comment>>

\* no run of the pipeline: the state of _readinputfile is left out
NoRun ==
  /\ file = <<>> /\ stepinterval = 1
  /\ pc = "idle"
  /\ atomtype = <<>> /\ steplinenum = 0
  /\ task = 0 /\ running = {} /\ outq = <<>> /\ yielded = 0
  /\ d = <<>> /\ timestep = {} /\ values_c = <<>>
  /\ temp1it = 0 /\ step = 0 /\ written = None /\ raised = "none" /\ parsed = {}
  /\ run = 1 /\ prev = None

InitBody ==
  /\ sitem \in { <<0, BodyLines(ids)>> : ids \in Bodies }
  /\ sres = None
  /\ N = BodyAtoms
  /\ NoRun
  /\ NoCrd

SpecBody == InitBody /\ [][NextStep]_vars

(***************************************************************************)
(* _getbondfromcrd on its own: CrdAtoms atoms, with periodic boundaries    *)
(* at most MaxGhosts ghost atoms among the images of the first NearCells   *)
(* cells, and a mol2 string of at most MaxRecords bonds between any of the *)
(* real and ghost atoms.                                                   *)
(***************************************************************************)
CrdAtoms == 2
NearCells == 2
MaxGhosts == 2
MaxRecords == 2

\* the type of atom id in the dump files of the model
DumpTypeOf(id) == IF id = 1 THEN 2 ELSE 1

\* the arrays `nearest` for n atoms
NearestArrays(n) ==
  { [k \in 1..(ImageCells * n) |-> k \in S] :
      S \in { T \in SUBSET (1..(NearCells * n)) : Cardinality(T) <= MaxGhosts } }

\* the bond type the oracle gives the bond between atoms a and b
BondTypeOf(a, b) ==
  CASE (a + b) % 4 = 0 -> "ar" [] (a + b) % 4 = 1 -> "am"
    [] (a + b) % 4 = 2 -> "2" [] (a + b) % 4 = 3 -> "1"

\* the place of the pair {a, b} in the bond list of the oracle
PairRank(p) == Min(p[1], p[2]) * 100 + Max(p[1], p[2])

\* the bond lists of the oracle for `total` atoms: every bond once, the pairs
\* ascending, either atom of a bond first
BondLists(total) ==
  UNION { { r \in [1..k -> { p \in (1..total) \X (1..total) : p[1] # p[2] }] :
              \A i \in 1..(k - 1) : PairRank(r[i]) < PairRank(r[i + 1]) } :
          k \in 0..MaxRecords }

\* the mol2 string of a bond list: an atom line, the bond section, a blank line
Mol2Lines(r) ==
  << [tag |-> "Line", s |-> <<1, "C1", 0, 0, 0, "C.3">>], [tag |-> "BondHeader", s |-> <<>>] >>
  \o [i \in 1..Len(r) |->
        [tag |-> "Line", s |-> <<i, r[i][1], r[i][2], BondTypeOf(r[i][1], r[i][2])>>]]
  \o << [tag |-> "Line", s |-> <<>>] >>

\* the number of ghost atoms of an array `nearest`
Ghosts(near) == Len(WhereTrue(near, 0))

InitCrd ==
  /\ step_atoms = [i \in 1..CrdAtoms |-> atomname[DumpTypeOf(i)]]
  /\ pbc \in BOOLEAN
  /\ nearest \in (IF pbc THEN NearestArrays(CrdAtoms) ELSE {<<>>})
  /\ mol2 \in { Mol2Lines(r) : r \in BondLists(CrdAtoms + Ghosts(nearest)) }
  /\ graph = None
  /\ cols = None
  /\ NoItem
  /\ N = CrdAtoms
  /\ NoRun

\* a worker calls _getbondfromcrd(step_atoms, boxsize)
CrdRead ==
  /\ graph = None
  /\ step_atoms # <<>>
  /\ graph' = Some(getbondfromcrd(step_atoms, pbc, nearest, mol2))
  /\ step_atoms' = WithGhosts(step_atoms, pbc, nearest)
  /\ UNCHANGED <<file, stepinterval, pc, N, atomtype, steplinenum, task, running, outq,
                 yielded, d, timestep, values_c, temp1it, step, written, raised, parsed,
                 run, prev, sitem, sres, cols, pbc, nearest, mol2>>

NextCrd == CrdRead

SpecCrd == InitCrd /\ [][NextCrd]_vars

(***************************************************************************)
(* The dump files of the model: at most DumpBlocks timestep blocks of      *)
(* DumpAtoms atoms, the five columns of the atom lines in any order, the   *)
(* atom lines by ascending or by descending id.  Atom id is at             *)
(* (id + 0.5, DumpAtoms + 1 - id, 0.0), its y written without a decimal    *)
(* point.                                                                  *)
(***************************************************************************)
DumpAtoms == 3
DumpBlocks == 2

ColumnNames == <<"id", "type", "x", "y", "z">>

\* the orders of the columns: the permutations of the five names
ColumnOrders ==
  { [i \in 1..Len(ColumnNames) |-> ColumnNames[c[i]]] :
      c \in { q \in [1..Len(ColumnNames) -> 1..Len(ColumnNames)] :
                \A i, j \in 1..Len(ColumnNames) : i # j => q[i] # q[j] } }

\* the token of atom id in the column `name`
DumpField(id, name) ==
  CASE name = "id" -> IntTok(id)
    [] name = "type" -> IntTok(DumpTypeOf(id))
    [] name = "x" -> DecTok(10 * id + 5)
    [] name = "y" -> IntTok(DumpAtoms + 1 - id)
    [] name = "z" -> DecTok(0)

DumpAtomLine(id, order) ==
  [tag |-> "Data", s |-> [i \in 1..Len(order) |-> DumpField(id, order[i])]]

\* block b (0-based) of a dump file
DumpBlock(b, order, ascending) ==
  << [tag |-> "TIMESTEP", s |-> <<>>], [tag |-> "Data", s |-> <<IntTok(5 * b)>>],
     [tag |-> "NUMBER", s |-> <<>>], [tag |-> "Data", s |-> <<IntTok(DumpAtoms)>>],
     [tag |-> "BOX", s |-> <<>>],
     [tag |-> "Data", s |-> <<DecTok(0), DecTok(100)>>],
     [tag |-> "Data", s |-> <<DecTok(0), DecTok(100)>>],
     [tag |-> "Data", s |-> <<DecTok(0), DecTok(100)>>],
     [tag |-> "ATOMS", s |-> order] >>
  \o [i \in 1..DumpAtoms |->
        DumpAtomLine(IF ascending THEN i ELSE DumpAtoms + 1 - i, order)]

RECURSIVE DumpFileLines(_, _, _, _)
DumpFileLines(b, nb, order, ascending) ==
  IF b = nb THEN <<>>
  ELSE DumpBlock(b, order, ascending) \o DumpFileLines(b + 1, nb, order, ascending)

DumpFiles ==
  { DumpFileLines(0, nb, order, ascending) :
      nb \in 1..DumpBlocks, order \in ColumnOrders, ascending \in BOOLEAN }

\* detect() on a dump file, without periodic boundaries: the header scan, and
\* _readstepfunc on one of the work items
InitDump ==
  /\ file \in DumpFiles
  /\ stepinterval = 1
  /\ StartOfRun
  /\ run = 1 /\ prev = None
  /\ NoItem
  /\ cols = None
  /\ pbc = FALSE /\ nearest = <<>>
  /\ mol2 \in { Mol2Lines(<<>>), Mol2Lines(<< <<1, 2>> >>) }
  /\ step_atoms = <<>> /\ graph = None

\* lines 78-79 for _DetectLAMMPSdump: self.id_idx ... self.zidx are set as the
\* scan meets the "ITEM: ATOMS" line
DumpReadN ==
  /\ pc = "start"
  /\ cols = None
  /\ pbc = FALSE
  /\ LET r == dumpreadNfunc(file) IN
       /\ cols' = r.cols
       /\ IF r.raised # "none"
          THEN /\ pc' = "failed"
               /\ raised' = r.raised
               /\ UNCHANGED <<N, atomtype, steplinenum>>
          ELSE /\ pc' = "read"
               /\ N' = r.N
               /\ atomtype' = r.atomtype
               /\ steplinenum' = r.steplinenum
               /\ UNCHANGED raised
  /\ UNCHANGED <<file, stepinterval, task, running, outq, yielded, d, timestep, values_c,
                 temp1it, step, written, parsed, run, prev, sitem, sres, pbc, nearest,
                 mol2, step_atoms, graph>>

\* a worker calls _readstepfunc on work item i of the dump file
DumpStepRead(i) ==
  /\ pc = "read"
  /\ cols # None
  /\ sres = None
  /\ i < NumItems(file, steplinenum, stepinterval)
  /\ LET item == <<i, BlockAt(file, steplinenum, BlockOfItem(i, stepinterval))>> IN
       /\ sitem' = item
       /\ sres' = Some(dumpreadstepfunc(item, cols, pbc, nearest, mol2))
  /\ UNCHANGED <<file, stepinterval, pc, N, atomtype, steplinenum, task, running, outq,
                 yielded, d, timestep, values_c, temp1it, step, written, raised, parsed,
                 run, prev, cols, pbc, nearest, mol2, step_atoms, graph>>

NextDump ==
  \/ DumpReadN
  \/ \E i \in 0..(DumpBlocks - 1) : DumpStepRead(i)

SpecDump == InitDump /\ [][NextDump]_vars

(***************************************************************************)
(* _readstepfunc on the one block of a bond file of 2 atoms and 1          *)
(* timestep, with a bond between atoms 1 and 2: the bond order field of    *)
(* the line of atom 1 and that of atom 2 are any of 0.0, 0.1, ... up to    *)
(* MaxBo tenths.                                                           *)
(***************************************************************************)
MaxBo == 26

OrderLines(t1, t2) ==
  << [tag |-> "Timestep", s |-> <<0>>], Comment,
     [tag |-> "Particles", s |-> <<2>>], Comment,
     AtomLine(1, << <<2, t1>> >>), AtomLine(2, << <<1, t2>> >>), Comment >>

\* the header scan of lines 78-79 has set self.N
InitOrder ==
  /\ sitem \in { <<0, OrderLines(t1, t2)>> : t1, t2 \in 0..MaxBo }
  /\ sres = None
  /\ N = readNfunc(sitem[2]).N
  /\ NoRun
  /\ NoCrd

SpecOrder == InitOrder /\ [][NextStep]_vars

(***************************************************************************)
(* Reading a key back (utils.bytestolist), and the bond graph a block of   *)
(* lines describes, for the properties below.                              *)
(***************************************************************************)
WordAt(b, i) == b[i] + 256 * b[i + 1]

\* the atom list of a key
KeyAtoms(key) == [i \in 1..WordAt(key, 1) |-> WordAt(key, 2 * i + 1)]

\* the (a, b, level) bond list of a key, which follows the b' ' after the atoms
KeyBonds(key) ==
  LET off == 2 * WordAt(key, 1) + 3
  IN  [j \in 1..WordAt(key, off + 1) |->
         << WordAt(key, off + 6 * j - 3), WordAt(key, off + 6 * j - 1),
            WordAt(key, off + 6 * j + 1) >>]

AtomLinesOf(lines) == { lines[i] : i \in {j \in DOMAIN lines : lines[j].tag = "Atom"} }

\* the directed bonds (a, b), 0-based, that the atom lines of a block list
EdgesOf(lines) ==
  UNION { { <<l.s[1] - 1, l.s[3 + j] - 1>> : j \in 1..l.s[3] } : l \in AtomLinesOf(lines) }

SymmetricEdges(E) == \A e \in E : <<e[2], e[1]>> \in E

RECURSIVE Reach(_, _)
\* the atoms joined to an atom of S by a path of bonds of E
Reach(S, E) ==
  LET T == S \cup { e[2] : e \in {x \in E : x[1] \in S} }
  IN  IF T = S THEN S ELSE Reach(T, E)

\* the atoms of the molecule of keys that holds atom a
MoleculeOf(keys, a) ==
  UNION { { KeyAtoms(keys[i])[j] : j \in 1..Len(KeyAtoms(keys[i])) } :
            i \in { k \in 1..Len(keys) : \E j \in 1..Len(KeyAtoms(keys[k])) :
                                           KeyAtoms(keys[k])[j] = a } }

StepDone == sres # None /\ sres[1].raised = "none"
StepKeys == sres[1].molecules
StepEdges == EdgesOf(sitem[2])

\* the bond graph that _DetectLAMMPSbond._readstepfunc hands to _connectmolecule
StepGraph ==
  LET r == readstepscan(sitem[2], N, [i \in 1..N |-> None], [i \in 1..N |-> None], None)
  IN  [bond |-> [a \in 1..N |-> Neighbours(r.bond[a])],
       level |-> [a \in 1..N |-> Neighbours(r.level[a])]]

\* the number of times atom a lists atom b as a neighbour with bond order k
CountBond(bond, level, a, b, k) ==
  Cardinality({ i \in DOMAIN bond[a + 1] : bond[a + 1][i] = b /\ level[a + 1][i] = k })

\* the symmetry of a BondGraph of n atoms: every neighbour has its bond order,
\* and b is a neighbour of a with order k as often as a is one of b with order k
SymmetricGraph(bond, level, n) ==
  /\ \A a \in 0..(n - 1) : Len(bond[a + 1]) = Len(level[a + 1])
  /\ \A a \in 0..(n - 1) : \A i \in DOMAIN bond[a + 1] :
       LET b == bond[a + 1][i]
           k == level[a + 1][i]
       IN  /\ b \in 0..(n - 1)
           /\ CountBond(bond, level, a, b, k) = CountBond(bond, level, b, a, k)

\* the same work item with the neighbours of every atom line in ascending order
SortedLine(l) ==
  IF l.tag # "Atom" THEN l
  ELSE AtomLine(l.s[1],
                SortSeq([j \in 1..l.s[3] |-> <<l.s[3 + j], l.s[4 + l.s[3] + j]>>],
                        LAMBDA x, y : x[1] < y[1]))
SortedItem(item) == <<item[1], [i \in 1..Len(item[2]) |-> SortedLine(item[2][i])]>>

(***************************************************************************)
(* Properties of _readstepfunc and _connectmolecule (SpecStep).            *)
(***************************************************************************)
\* C2: the atom lists of the molecules returned for a block of N atoms hold
\* every atom index 0..N-1 exactly once, also when atoms of the block have no
\* line and their entry of the bond array stays None.
C2_Partition ==
  StepDone =>
    /\ \A a \in 0..(N - 1) :
         Cardinality({ ij \in (1..Len(StepKeys)) \X (1..N) :
                         /\ ij[2] <= Len(KeyAtoms(StepKeys[ij[1]]))
                         /\ KeyAtoms(StepKeys[ij[1]])[ij[2]] = a }) = 1
    /\ \A i \in 1..Len(StepKeys) :
         /\ Len(KeyAtoms(StepKeys[i])) \in 1..N
         /\ \A j \in 1..Len(KeyAtoms(StepKeys[i])) : KeyAtoms(StepKeys[i])[j] \in 0..(N - 1)

\* a block in which an atom has no line, another atom has a bond, and more than
\* one molecule is returned
C2_Witness ==
  /\ StepDone
  /\ \E a \in 1..N : \A l \in AtomLinesOf(sitem[2]) : l.s[1] # a
  /\ StepEdges # {}
  /\ Len(StepKeys) >= 2

\* C3: for a block whose bonds are listed from both ends, two atoms are in the
\* same returned molecule exactly when a path of bonds joins them, and an atom
\* without neighbours is a molecule of its own with an empty bond list.
C3_Components ==
  (StepDone /\ SymmetricEdges(StepEdges)) =>
    /\ \A a \in 0..(N - 1) : MoleculeOf(StepKeys, a) = Reach({a}, StepEdges)
    /\ \A a \in 0..(N - 1) :
         (\A e \in StepEdges : e[1] # a) =>
            \E i \in 1..Len(StepKeys) :
               KeyAtoms(StepKeys[i]) = <<a>> /\ KeyBonds(StepKeys[i]) = <<>>

\* a block of three atoms, each with a line and none with a bond: three
\* molecules of one atom
C3_Witness ==
  /\ StepDone
  /\ Cardinality(AtomLinesOf(sitem[2])) = N
  /\ StepEdges = {}
  /\ Len(StepKeys) = N
  /\ N >= 3

\* C5: the keys returned for a block that describes a symmetric bond graph do
\* not depend on the order in which the atom lines list their neighbours: they
\* are the keys of the block with every neighbour list in ascending order.
C5_OrderIndependent ==
  (StepDone /\ SymmetricGraph(StepGraph.bond, StepGraph.level, N)) =>
    StepKeys = readstepfunc(SortedItem(sitem), N).molecules

(***************************************************************************)
(* Properties of a run of _readinputfile (Spec).                           *)
(***************************************************************************)
MergeOver == pc \in {"save", "done"}

Ascending(s) == \A j \in 1..(Len(s) - 1) : s[j] <= s[j + 1]

\* C1: once _readinputfile has merged all results, the occurrence list of
\* every key of d is non-decreasing in the step index, whatever the order in
\* which the workers finished.
C1_OccurrencesAscending ==
  MergeOver => \A i \in 1..Len(d) : Ascending(d[i][2])

\* the atoms and the bonds of a key, as sets
KeyAtomSet(key) == { KeyAtoms(key)[j] : j \in 1..Len(KeyAtoms(key)) }
KeyBondSet(key) == { KeyBonds(key)[j] : j \in 1..Len(KeyBonds(key)) }

\* the molecules of two keys have the same atom types and the same bonds with
\* the same orders: a one-to-one map of the atoms of one onto the atoms of the
\* other keeps the types and carries the bonds of one onto the bonds of the other
SameStructure(k1, k2) ==
  /\ Cardinality(KeyAtomSet(k1)) = Cardinality(KeyAtomSet(k2))
  /\ \E f \in [KeyAtomSet(k1) -> KeyAtomSet(k2)] :
       /\ \A x, y \in KeyAtomSet(k1) : x # y => f[x] # f[y]
       /\ \A x \in KeyAtomSet(k1) : atomtype[x + 1] = atomtype[f[x] + 1]
       /\ { <<Min(f[b[1]], f[b[2]]), Max(f[b[1]], f[b[2]]), b[3]>> : b \in KeyBondSet(k1) }
            = { <<Min(b[1], b[2]), Max(b[1], b[2]), b[3]>> : b \in KeyBondSet(k2) }

\* C4: molecules of the same atom types and the same bonds and bond orders,
\* whatever their atom indices and timesteps, have the same key and so share
\* one entry of d.
C4_SameStructureSameKey ==
  \A i, j \in 1..Len(d) : SameStructure(d[i][1], d[j][1]) => i = j

\* C6: a run of the pipeline on the input of an earlier run ends with the
\* timeline of the earlier run: the same keys with the same occurrence lists
\* and the same step-to-timestep map.
C6_SameTimeline ==
  (pc = "done" /\ prev # None) => Timeline = prev[1]

\* the work items of the first run_mp call whose processing raises
FailingItems ==
  { i \in 0..(NumItems(file, steplinenum, stepinterval) - 1) :
      readstepfunc(ReadItem(i), N).raised # "none" }

\* C7: when the processing of a timestep raises, the run ends with that
\* exception and nothing is persisted; a temp file is written only after
\* every timestep of the run has been merged.
C7_AllOrNothing ==
  /\ pc = "failed" => written = None
  /\ (pc = "failed" /\ steplinenum > 0) =>
        \E i \in FailingItems : raised = readstepfunc(ReadItem(i), N).raised
  /\ written # None =>
        /\ FailingItems = {}
        /\ { p[1] : p \in timestep } = 0..(NumItems(file, steplinenum, stepinterval) - 1)

\* a run that failed in a worker after results of other timesteps were merged
C7_Witness ==
  /\ pc = "failed"
  /\ raised = "UnboundLocalError"
  /\ d # <<>>
  /\ written = None

\* C8: d changes only in an iteration of the merge loop, which takes one
\* result off the result queue while no worker takes or finishes a work item
\* (or when a new run starts with an empty d).
C8_SingleMutator ==
  [][ d' # d =>
        \/ /\ pc = "read" /\ pc' = "read"
           /\ yielded' = yielded + 1
           /\ Len(outq') = Len(outq) - 1
           /\ running' = running /\ task' = task /\ parsed' = parsed
        \/ pc = "done" /\ pc' = "start" /\ d' = <<>> ]_vars

\* d holds merged results while workers are processing other timesteps
C8_Witness ==
  /\ pc = "read"
  /\ d # <<>>
  /\ running # {}
  /\ outq # <<>>

\* the blocks of the file that the step interval keeps
KeptBlocks ==
  { b \in 0..(NumBlocks(file, steplinenum) - 1) : b % stepinterval = 0 }

\* C9: _readstepfunc is called on every stepinterval-th block only, and by the
\* end of the merge on each of these; with interval 2 over 4 blocks, on blocks
\* 0 and 2.
C9_IntervalBlocks ==
  /\ \A b \in parsed : b % stepinterval = 0
  /\ (MergeOver /\ steplinenum > 0) => parsed = KeptBlocks

\* a finished run with interval 2 over a file of 4 blocks: blocks 0 and 2
C9_Witness ==
  /\ pc = "done"
  /\ stepinterval = 2
  /\ NumBlocks(file, steplinenum) = 4
  /\ parsed = {0, 2}

\* the exceptions that the parsing code raises on a malformed line
ParseError == {"IndexError", "UnboundLocalError"}

\* the first "# Number of particles" line of the file carries no atom count
HeaderLacksCount ==
  \E i \in DOMAIN file :
    /\ file[i].tag = "Particles" /\ file[i].s = <<>>
    /\ \A j \in 1..(i - 1) : file[j].tag # "Particles"

\* C10: when the header line lacks the atom count, the run fails in the header
\* scan with a parse error, and no work item is ever taken by a worker.
C10_HeaderError ==
  (HeaderLacksCount /\ pc # "start") =>
    /\ pc = "failed"
    /\ raised \in ParseError
    /\ task = 0 /\ running = {} /\ outq = <<>> /\ parsed = {}
    /\ d = <<>> /\ written = None

\* a run that failed in the header scan on such a file
C10_Witness ==
  /\ HeaderLacksCount
  /\ pc = "failed"
  /\ raised = "IndexError"
  /\ task = 0

(***************************************************************************)
(* Properties of _readstepfunc on a malformed body (SpecBody).             *)
(***************************************************************************)
\* the ids of the atom lines of a block, in file order
AtomIdsOf(lines) ==
  LET at == SelectSeq(lines, LAMBDA l : l.tag = "Atom")
  IN  [i \in 1..Len(at) |-> at[i].s[1]]

\* the body of a block holds exactly the atoms 1..n, each on one line
ExactBody(lines, n) ==
  /\ Len(AtomIdsOf(lines)) = n
  /\ { AtomIdsOf(lines)[i] : i \in 1..Len(AtomIdsOf(lines)) } = 1..n

\* C11: when the body of a block does not hold exactly the N atoms of the
\* header (fewer atom lines, more atom lines, or an atom id outside 1..N),
\* _readstepfunc raises a parse error and returns no molecules.
C11_CountMismatchFails ==
  (sres # None /\ ~ExactBody(sitem[2], N)) =>
    /\ sres[1].raised \in ParseError
    /\ sres[1].molecules = <<>>

(***************************************************************************)
(* Properties of _getbondfromcrd (SpecCrd).                                *)
(***************************************************************************)
CrdDone == graph # None
\* atomnumber of line 241, the atoms before line 253 appends the ghost atoms
atomnumber == IF CrdDone THEN Len(step_atoms) - Ghosts(nearest) ELSE Len(step_atoms)
CrdBond == graph[1].bond
CrdLevel == graph[1].level

\* the bond lines of the mol2 string, as they follow the "@<TRIPOS>BOND" line:
\* the two atoms of every line, numbered from 0, the ghost atoms from atomnumber on
BondRecords ==
  LET h == CHOOSE i \in DOMAIN mol2 : mol2[i].tag = "BondHeader"
      ls == SelectSeq(SubSeq(mol2, h + 1, Len(mol2)), LAMBDA l : Len(l.s) > 3)
  IN  [j \in 1..Len(ls) |-> <<ls[j].s[2] - 1, ls[j].s[3] - 1>>]

\* the atom whose image stands at place k of the images, which are laid out
\* cell after cell, n atoms to a cell
CopiedAtom(k, n) ==
  CHOOSE i \in 0..(n - 1) : \E c \in 0..(ImageCells - 1) : k = c * n + i

\* the real atom that every atom of the oracle stands for: itself, or for a
\* ghost atom the atom whose image it is
RealAtoms ==
  LET n == atomnumber
      w == WhereTrue(nearest, 0)
  IN  [s \in 0..(n + Len(w) - 1) |-> IF s < n THEN s ELSE CopiedAtom(w[s - n + 1], n)]

\* the bond lines recs that join a real atom to an image, between the atoms a and b
ThroughImage(recs, real, n, a, b) ==
  { j \in 1..Len(recs) :
      /\ (recs[j][1] >= n) # (recs[j][2] >= n)
      /\ {real[recs[j][1]], real[recs[j][2]]} = {a, b} }

\* a bond line of recs joins the real atoms a and b themselves
Direct(recs, a, b) == \E j \in 1..Len(recs) : {recs[j][1], recs[j][2]} = {a, b}

Count(seq, x) == Cardinality({ i \in DOMAIN seq : seq[i] = x })

\* C12: with periodic boundaries, two real atoms that the oracle joins through
\* an image only are neighbours of each other exactly once in the bond graph
\* of _getbondfromcrd, whatever real-to-image and image-to-image bond lines the
\* oracle reports for them.
C12_OneBondThroughImage ==
  (CrdDone /\ pbc) =>
    LET n == atomnumber
        recs == BondRecords
        real == RealAtoms
    IN  \A a, b \in 0..(n - 1) :
          (a # b /\ ~Direct(recs, a, b) /\ ThroughImage(recs, real, n, a, b) # {}) =>
            /\ graph[1].raised = "none"
            /\ Count(CrdBond[a + 1], b) = 1
            /\ Count(CrdBond[b + 1], a) = 1

\* the bond graph that _getbondfromcrd returns is symmetric for every answer of
\* the oracle: lines 283-288 append every stored bond to both of its atoms with
\* one level (holds in SpecCrd)
CrdSymmetric ==
  CrdDone =>
    /\ graph[1].raised = "none"
    /\ SymmetricGraph(CrdBond, CrdLevel, atomnumber)

\* C13: the bond graph that a parser hands to _connectmolecule is symmetric,
\* the graph of _DetectLAMMPSbond._readstepfunc as well as that of
\* _getbondfromcrd: every neighbour has its bond order, and atom a lists atom b
\* as a neighbour with bond order k as often as atom b lists atom a with order k.
C13_Symmetric ==
  /\ StepDone => SymmetricGraph(StepGraph.bond, StepGraph.level, N)
  /\ CrdSymmetric

\* C18: with periodic boundaries, every neighbour in the bond graph of
\* _getbondfromcrd is a real atom index in 0..atomnumber-1; a bond line with one
\* image atom is stored between the real atom and the atom the image copies,
\* and a bond line between two image atoms adds nothing: atom a lists atom b
\* once for every bond line with at most one image atom that joins them (twice
\* for a bond of an atom with its own image).
C18_RealIndices ==
  (CrdDone /\ pbc) =>
    LET n == atomnumber
        recs == BondRecords
        real == RealAtoms
        bond == CrdBond
        stored == { j \in 1..Len(recs) : ~(recs[j][1] >= n /\ recs[j][2] >= n) }
    IN  /\ graph[1].raised = "none"
        /\ \A a \in 0..(n - 1) :
             /\ \A i \in DOMAIN bond[a + 1] : bond[a + 1][i] \in 0..(n - 1)
             /\ \A b \in 0..(n - 1) :
                  Count(bond[a + 1], b) =
                    Cardinality({ j \in stored : real[recs[j][1]] = a /\ real[recs[j][2]] = b })
                    + Cardinality({ j \in stored : real[recs[j][1]] = b /\ real[recs[j][2]] = a })

\* a bond line between a real atom and an image of the second image cell, and
\* a bond line between two images: one bond in the graph
C18_Witness ==
  /\ CrdDone
  /\ pbc
  /\ \E j \in DOMAIN BondRecords :
       /\ BondRecords[j][1] < atomnumber /\ BondRecords[j][2] >= atomnumber
       /\ WhereTrue(nearest, 0)[BondRecords[j][2] - atomnumber + 1] >= atomnumber
       /\ RealAtoms[BondRecords[j][2]] # BondRecords[j][1]
  /\ \E j \in DOMAIN BondRecords :
       BondRecords[j][1] >= atomnumber /\ BondRecords[j][2] >= atomnumber
  /\ Len(CrdBond[1]) = 1 /\ Len(CrdBond[2]) = 1

(***************************************************************************)
(* Properties of the dump-file parsers (SpecDump).                         *)
(***************************************************************************)
\* the tokens of an atom line in the order id, type, x, y, z, given the column
\* names of its "ITEM: ATOMS" line
CanonTokens(s, names) ==
  [i \in 1..Len(ColumnNames) |->
     s[CHOOSE j \in 1..Len(names) : names[j] = ColumnNames[i]]]

RECURSIVE CanonLines(_, _)
\* the same dump file with the columns of every atom line, and of the header
\* that names them, in the order id, type, x, y, z
CanonLines(lines, names) ==
  IF lines = <<>> THEN <<>>
  ELSE LET l == Head(lines) IN
       IF l.tag = "ATOMS"
       THEN <<[tag |-> "ATOMS", s |-> ColumnNames]>> \o CanonLines(Tail(lines), l.s)
       ELSE IF l.tag # "Data" \/ names = <<>>
       THEN <<l>> \o CanonLines(Tail(lines), IF l.tag = "Data" THEN names ELSE <<>>)
       ELSE <<[tag |-> "Data", s |-> CanonTokens(l.s, names)]>> \o CanonLines(Tail(lines), names)

\* C14: the id, type, x, y and z of every atom line of a dump file are read at
\* the columns that the "ITEM: ATOMS" line names, in the header scan and in the
\* per-timestep scan: N, the atom types and the atoms of every step are those
\* of the same file written with the columns in the order id, type, x, y, z.
C14_ColumnsByName ==
  LET c == dumpreadNfunc(CanonLines(file, <<>>)) IN
    /\ pc = "failed" => raised = c.raised
    /\ pc = "read" => (c.raised = "none" /\ N = c.N /\ atomtype = c.atomtype)
    /\ (pc = "read" /\ sres # None) =>
         LET r == dumpreadstepfunc(<<sitem[1], CanonLines(sitem[2], <<>>)>>, c.cols,
                                   pbc, nearest, mol2)
         IN  /\ sres[1].raised = r.raised
             /\ sres[1].atoms = r.atoms
             /\ sres[1].timestep = r.timestep

(***************************************************************************)
(* Properties of the bond orders of the bond-file parser (SpecOrder).      *)
(***************************************************************************)
\* the bond order fields of the line of atom id, in tenths
OrderFields(lines, id) ==
  LET l == CHOOSE x \in AtomLinesOf(lines) : x.s[1] = id
  IN  [j \in 1..l.s[3] |-> l.s[4 + l.s[3] + j]]

\* k is the field t (in tenths) rounded to the nearest integer, and 1 if that
\* is below 1
RoundedAtLeastOne(k, t) ==
  /\ k \in Nat /\ k >= 1
  /\ k > 1 => (10 * k - t <= 5 /\ t - 10 * k <= 5)
  /\ k = 1 => t <= 15

\* C15: every bond order field of a bond file is rounded to the nearest
\* integer and raised to 1 when that is below 1, so every bond order of the
\* bond graph is an integer >= 1; the file of 2 atoms and 1 timestep with the
\* field "1.4" between atoms 1 and 2 gives one molecule of the 2 atoms with
\* bond order 1.
C15_OrderRounded ==
  StepDone =>
    LET g == StepGraph
        t1 == OrderFields(sitem[2], 1)
        t2 == OrderFields(sitem[2], 2)
    IN  /\ N = 2
        /\ Len(g.level[1]) = 1 /\ RoundedAtLeastOne(g.level[1][1], t1[1])
        /\ Len(g.level[2]) = 1 /\ RoundedAtLeastOne(g.level[2][1], t2[1])
        /\ Len(StepKeys) = 1
        /\ KeyAtoms(StepKeys[1]) = <<0, 1>>
        /\ Len(KeyBonds(StepKeys[1])) = 1
        /\ KeyBonds(StepKeys[1])[1][1] = 0 /\ KeyBonds(StepKeys[1])[1][2] = 1
        /\ RoundedAtLeastOne(KeyBonds(StepKeys[1])[1][3], t1[1])
        /\ (t1 = <<14>> /\ t2 = <<14>>) => KeyBonds(StepKeys[1]) = << <<0, 1, 1>> >>

\* the file with the field "1.4" on both lines: one molecule, bond order 1
C15_Witness ==
  /\ StepDone
  /\ N = 2
  /\ OrderFields(sitem[2], 1) = <<14>> /\ OrderFields(sitem[2], 2) = <<14>>
  /\ Len(StepKeys) = 1
  /\ KeyBonds(StepKeys[1]) = << <<0, 1, 1>> >>

(***************************************************************************)
(* Properties of the end of _readinputfile (Spec).                         *)
(***************************************************************************)
\* C16: the keys and the payloads handed to _writemoleculetempfile are
\* aligned: the payload collected at place i is the compressed occurrence list
\* of the i-th key of d, and that pair is what is written at place i, in
\* whatever order the workers finish compressing the lists.
C16_Aligned ==
  /\ pc \in {"save", "done"} =>
       /\ Len(values_c) <= Len(d)
       /\ \A i \in 1..Len(values_c) : values_c[i] = compressvalue(d[i][2])
  /\ written # None =>
       /\ Len(written[1]) = Len(d)
       /\ \A i \in 1..Len(d) : written[1][i] = <<d[i][1], compressvalue(d[i][2])>>

\* a payload has been collected, and a later list was compressed before the
\* list that is collected next, whose payload is another one
C16_Witness ==
  /\ pc = "save"
  /\ values_c # <<>>
  /\ yielded \in running
  /\ \E k \in 1..Len(outq) :
       /\ outq[k].index > yielded
       /\ outq[k].res # compressvalue(d[yielded + 1][2])

\* the keys of the molecules of the work items of the first run_mp call
KeysOfItems ==
  UNION { { readstepfunc(ReadItem(i), N).molecules[j] :
              j \in 1..Len(readstepfunc(ReadItem(i), N).molecules) } :
          i \in 0..(NumItems(file, steplinenum, stepinterval) - 1) }

\* C17: when _readinputfile is over, self.step is the number of timesteps that
\* were processed, one entry of the step-to-timestep map for each, and
\* self.temp1it is the number of distinct keys of the aggregation map d.
C17_Counts ==
  /\ pc \in {"save", "done"} =>
       /\ temp1it = Len(d)
       /\ temp1it = Cardinality({ d[i][1] : i \in 1..Len(d) })
  /\ pc = "done" =>
       /\ step = Cardinality(timestep)
       /\ step = Cardinality({ p[1] : p \in timestep })
       /\ step = Cardinality(parsed)
       /\ step = NumItems(file, steplinenum, stepinterval)
       /\ temp1it = Cardinality(KeysOfItems)

\* a finished run over several timesteps with more keys than one timestep has
\* molecules
C17_Witness ==
  /\ pc = "done"
  /\ step >= 2
  /\ temp1it > NAtoms
  /\ temp1it # step

\* the steps at which a key is among the molecules of the work item
StepsOfKey(key) ==
  { i \in 0..(NumItems(file, steplinenum, stepinterval) - 1) :
      \E j \in 1..Len(readstepfunc(ReadItem(i), N).molecules) :
        readstepfunc(ReadItem(i), N).molecules[j] = key }

\* C19: no step index occurs twice in the occurrence list of a key of d: the
\* keys that _connectmolecule returns for one timestep are pairwise distinct,
\* their atom sets disjoint, and the result of every step is merged once, so
\* that after the merge a key has exactly the steps at which it occurred.
C19_NoStepTwice ==
  /\ \A i \in 1..Len(d) :
       \A j, k \in 1..Len(d[i][2]) : j # k => d[i][2][j] # d[i][2][k]
  /\ \A q \in 1..Len(outq) :
       (pc = "read" /\ outq[q].res.raised = "none") =>
         \A j, k \in 1..Len(outq[q].res.molecules) :
           j # k => /\ outq[q].res.molecules[j] # outq[q].res.molecules[k]
                    /\ KeyAtomSet(outq[q].res.molecules[j])
                         \cap KeyAtomSet(outq[q].res.molecules[k]) = {}
  /\ pc = "done" =>
       \A i \in 1..Len(d) :
         /\ Len(d[i][2]) = Cardinality(StepsOfKey(d[i][1]))
         /\ { d[i][2][j] : j \in 1..Len(d[i][2]) } = StepsOfKey(d[i][1])

\* a finished run in which a molecule occurs at several steps and a step has
\* several molecules
C19_Witness ==
  /\ pc = "done"
  /\ \E i \in 1..Len(d) : Len(d[i][2]) >= 2
  /\ \E i, j \in 1..Len(d) : i # j /\ d[i][2][1] = d[j][2][1]
  /\ Cardinality(timestep) >= 2

====
